---------------------------- MODULE Spec2Model ----------------------------
(***************************************************************************)
(* Model of sba.go: the sports-betting arbitrage primer.                   *)
(*                                                                         *)
(* Numbers.  The program computes with float64.  A float64 is modelled as  *)
(* a record [k, n, d]: kind k is "fin" (the value n/d, in lowest terms,    *)
(* d > 0), "pinf", "ninf" or "nan".  The operators FAdd, FSub, FMul, FDiv  *)
(* and the comparisons follow IEEE-754 on the special values (x/0 is an    *)
(* infinity, 0/0 and inf-inf are NaN, every comparison with NaN is false). *)
(* Finite results are exact: the rounding of the last bit of a float64 is  *)
(* not represented, and zero carries no sign.  Prices are given in         *)
(* hundredths (cents), as the generator and the report format them.        *)
(* The arithmetic is written as functions, whose arguments TLC evaluates   *)
(* once.  The variants marked "Faulty variant" are not part of the         *)
(* program: each is a definition with a plausible slip, against which a    *)
(* property is tested.                                                     *)
(***************************************************************************)
EXTENDS Integers, Sequences, FiniteSets, TLC

(***************************************************************************)
(* float64                                                                 *)
(***************************************************************************)
Abs(x) == IF x < 0 THEN -x ELSE x

Gcd[a \in Nat, b \in Nat] == IF b = 0 THEN a ELSE Gcd[b, a % b]

\* the float64 values
Float == [k : {"fin", "pinf", "ninf", "nan"}, n : Int, d : Int]

Fin[n \in Int, d \in Int \ {0}] ==
    LET s == IF d < 0 THEN -1 ELSE 1
        g == Gcd[Abs(n), Abs(d)]
    IN  [k |-> "fin", n |-> (s * n) \div g, d |-> (s * d) \div g]

PInf == [k |-> "pinf", n |-> 1, d |-> 1]
NInf == [k |-> "ninf", n |-> -1, d |-> 1]
NaN == [k |-> "nan", n |-> 0, d |-> 1]

FromInt(i) == Fin[i, 1]
FromCents(c) == Fin[c, 100]

IsInf(x) == x.k \in {"pinf", "ninf"}
IsNaN(x) == x.k = "nan"

\* -1, 0 or 1: the sign of a value that is not NaN
Sign(x) ==
    CASE x.k = "pinf" -> 1
      [] x.k = "ninf" -> -1
      [] OTHER -> IF x.n > 0 THEN 1 ELSE IF x.n < 0 THEN -1 ELSE 0

Signed(s) == IF s > 0 THEN PInf ELSE NInf

FNeg[x \in Float] ==
    CASE x.k = "pinf" -> NInf
      [] x.k = "ninf" -> PInf
      [] x.k = "nan" -> NaN
      [] OTHER -> Fin[-x.n, x.d]

FAdd[x \in Float, y \in Float] ==
    CASE IsNaN(x) \/ IsNaN(y) -> NaN
      [] IsInf(x) /\ IsInf(y) -> IF x.k = y.k THEN x ELSE NaN
      [] IsInf(x) -> x
      [] IsInf(y) -> y
      [] OTHER -> LET g == Gcd[x.d, y.d]
                  IN  Fin[x.n * (y.d \div g) + y.n * (x.d \div g), (x.d \div g) * y.d]

FSub[x \in Float, y \in Float] == FAdd[x, FNeg[y]]

FMul[x \in Float, y \in Float] ==
    CASE IsNaN(x) \/ IsNaN(y) -> NaN
      [] IsInf(x) \/ IsInf(y) ->
           IF Sign(x) * Sign(y) = 0 THEN NaN ELSE Signed(Sign(x) * Sign(y))
      [] OTHER -> Fin[x.n * y.n, x.d * y.d]

FDiv[x \in Float, y \in Float] ==
    CASE IsNaN(x) \/ IsNaN(y) -> NaN
      [] IsInf(x) /\ IsInf(y) -> NaN
      [] IsInf(x) -> Signed(Sign(x) * (IF Sign(y) < 0 THEN -1 ELSE 1))
      [] IsInf(y) -> FromInt(0)
      [] y.n = 0 -> IF x.n = 0 THEN NaN ELSE Signed(Sign(x))
      [] OTHER -> Fin[x.n * y.d, x.d * y.n]

FLess[x \in Float, y \in Float] ==
    CASE IsNaN(x) \/ IsNaN(y) -> FALSE
      [] x.k = "ninf" -> y.k # "ninf"
      [] x.k = "pinf" -> FALSE
      [] y.k = "pinf" -> TRUE
      [] y.k = "ninf" -> FALSE
      [] OTHER -> LET g == Gcd[x.d, y.d]
                  IN  x.n * (y.d \div g) < y.n * (x.d \div g)

FGreater[x \in Float, y \in Float] == FLess[y, x]

One == FromInt(1)
Zero == FromInt(0)

(***************************************************************************)
(* Odds, and the arithmetic of an arbitrage                                *)
(***************************************************************************)
Odds(w, d, l) == [Win |-> w, Draw |-> d, Lose |-> l]

OddsCents(w, d, l) == Odds(FromCents(w), FromCents(d), FromCents(l))

\* Faulty variant: the third term is forgotten
calculateArbitragePercentageTwoLegs(odds) ==
    FAdd[FDiv[One, odds.Win], FDiv[One, odds.Draw]]

calculateArbitragePercentage(odds) ==
    FAdd[FAdd[FDiv[One, odds.Win], FDiv[One, odds.Draw]], FDiv[One, odds.Lose]]

\* Faulty variant: the draw stake is divided by the win price
calculateStakesCopied(odds, totalBet) ==
    LET arbitragePercentage == calculateArbitragePercentage(odds)
    IN  [winStake  |-> FDiv[FDiv[totalBet, arbitragePercentage], odds.Win],
         drawStake |-> FDiv[FDiv[totalBet, arbitragePercentage], odds.Win],
         loseStake |-> FDiv[FDiv[totalBet, arbitragePercentage], odds.Lose]]

calculateStakes(odds, totalBet) ==
    LET arbitragePercentage == calculateArbitragePercentage(odds)
    IN  [winStake  |-> FDiv[FDiv[totalBet, arbitragePercentage], odds.Win],
         drawStake |-> FDiv[FDiv[totalBet, arbitragePercentage], odds.Draw],
         loseStake |-> FDiv[FDiv[totalBet, arbitragePercentage], odds.Lose]]

(***************************************************************************)
(* Bounds and input sets                                                   *)
(***************************************************************************)
\* generateBookmakers is called with numBookmakers in 0..MaxTasks
MaxTasks == 2
\* a collection handed to findArbitrageOpportunities has at most this many bookmakers
MaxBookmakers == 2
\* and at most this many quotes in all
MaxQuotes == 2

\* the values of numGamesPerBookmaker
GameCounts == {0, 1}

\* faker.UUIDDigit() and the ids of a snapshot: a small set of event ids
IDs == {"e1", "e2"}

\* rand.Float64() returns a value of [0, 1): the three values one call of
\* generateOdds draws
RandDraws ==
    { <<FromInt(0), FromInt(0), FromInt(0)>>,
      <<Fin[3, 4], Fin[3, 4], Fin[3, 4]>>,
      <<Fin[999, 1000], Fin[1, 2], Fin[1, 4]>> }

\* The quotes of a snapshot file.  2.10/3.00/4.00 and 1.90/3.50/4.20 combine
\* to 2.10/3.50/4.20; 2.90/4.90/5.90 is an arbitrage by itself; 1.50/2.00/3.00 is
\* none; the last two hold a price that is no valid price.
OddsSet ==
    { OddsCents(210, 300, 400), OddsCents(190, 350, 420),
      OddsCents(290, 490, 590), OddsCents(150, 200, 300),
      OddsCents(-200, 200, 400), OddsCents(0, 200, 300) }

\* The prices and total bets calculateStakes is applied to
PriceSet ==
    { FromCents(c) : c \in {-200, -100, 0, 150, 200, 210, 350, 400, 420, 590} }

TotalBets == { FromInt(1), FromInt(100), Fin[5, 2] }

(***************************************************************************)
(* Data: Game, Bookmaker.  Name, TeamA, TeamB and EventAt are written once *)
(* and never read by the program, and are left out.                        *)
(***************************************************************************)
Game(id, odds) == [ID |-> id, Odds |-> odds]

Bookmaker(games) == [Games |-> games]

Games == { Game(id, o) : id \in IDs, o \in OddsSet }

RECURSIVE SeqsUpTo(_, _)
\* the sequences over S of length at most n
SeqsUpTo(S, n) ==
    IF n = 0 THEN { <<>> }
    ELSE LET shorter == SeqsUpTo(S, n - 1)
         IN  shorter \cup { Append(q, x) : q \in { r \in shorter : Len(r) = n - 1 }, x \in S }

RECURSIVE CollectionsOf(_, _)
\* the collections of at most nb bookmakers holding at most nq quotes in all
CollectionsOf(nb, nq) ==
    IF nb = 0 THEN { <<>> }
    ELSE { <<>> } \cup
         UNION { { <<Bookmaker(gs)>> \o rest : rest \in CollectionsOf(nb - 1, nq - Len(gs)) }
                 : gs \in SeqsUpTo(Games, nq) }

Collections == CollectionsOf(MaxBookmakers, MaxQuotes)

\* the snapshots main is run against
Snapshots == CollectionsOf(MaxBookmakers, 1)

(***************************************************************************)
(* Generation                                                              *)
(***************************************************************************)
\* int(x) of a finite float64: truncation toward zero
Trunc(x) == IF x.n >= 0 THEN x.n \div x.d ELSE -((-x.n) \div x.d)

roundToTwoDecimal(val) ==
    FDiv[FromInt(Trunc(FMul[val, FromInt(100)])), FromInt(100)]

\* generateOdds with the three values rand.Float64() returned
generateOdds(r1, r2, r3) ==
    Odds(roundToTwoDecimal(FAdd[FMul[r1, FromInt(2)], FromInt(1)]),
         roundToTwoDecimal(FAdd[FMul[r2, FromInt(3)], FromInt(2)]),
         roundToTwoDecimal(FAdd[FMul[r3, FromInt(4)], FromInt(2)]))

GeneratedGames == { Game(id, generateOdds(r[1], r[2], r[3])) : id \in IDs, r \in RandDraws }

\* generateGames(numGames): numGames games, each with a fresh id and fresh odds
generateGames(numGames) == { gs \in SeqsUpTo(GeneratedGames, numGames) : Len(gs) = numGames }

(***************************************************************************)
(* findBestOdds                                                            *)
(***************************************************************************)
\* Faulty variant: the three fields are tied to the win price; a quote with a
\* larger win price replaces the whole record
UpdateBestTied(bestOdds, game) ==
    LET exists == game.ID \in DOMAIN bestOdds
        newBest == IF ~exists \/ FGreater[game.Odds.Win, bestOdds[game.ID].Win]
                   THEN game.Odds ELSE bestOdds[game.ID]
    IN  [id \in DOMAIN bestOdds \cup {game.ID} |->
            IF id = game.ID THEN newBest ELSE bestOdds[id]]

\* Faulty variant: the last quote of an event overwrites the stored one
UpdateBestLast(bestOdds, game) ==
    [id \in DOMAIN bestOdds \cup {game.ID} |->
        IF id = game.ID THEN game.Odds ELSE bestOdds[id]]

\* Faulty variant: the test of exists is forgotten; a first quote is compared
\* with the zero value
UpdateBestNoExists(bestOdds, game) ==
    LET exists == game.ID \in DOMAIN bestOdds
        currentBest == IF exists THEN bestOdds[game.ID] ELSE Odds(Zero, Zero, Zero)
        newBest ==
            Odds(IF FGreater[game.Odds.Win, currentBest.Win]
                    THEN game.Odds.Win ELSE currentBest.Win,
                 IF FGreater[game.Odds.Draw, currentBest.Draw]
                    THEN game.Odds.Draw ELSE currentBest.Draw,
                 IF FGreater[game.Odds.Lose, currentBest.Lose]
                    THEN game.Odds.Lose ELSE currentBest.Lose)
    IN  [id \in DOMAIN bestOdds \cup {game.ID} |->
            IF id = game.ID THEN newBest ELSE bestOdds[id]]

\* one pass of the inner loop body (sba.go 137-147)
UpdateBest(bestOdds, game) ==
    LET exists == game.ID \in DOMAIN bestOdds
        \* a missing key reads as the zero value of Odds
        currentBest == IF exists THEN bestOdds[game.ID] ELSE Odds(Zero, Zero, Zero)
        newBest ==
            Odds(IF ~exists \/ FGreater[game.Odds.Win, currentBest.Win]
                    THEN game.Odds.Win ELSE currentBest.Win,
                 IF ~exists \/ FGreater[game.Odds.Draw, currentBest.Draw]
                    THEN game.Odds.Draw ELSE currentBest.Draw,
                 IF ~exists \/ FGreater[game.Odds.Lose, currentBest.Lose]
                    THEN game.Odds.Lose ELSE currentBest.Lose)
    IN  [id \in DOMAIN bestOdds \cup {game.ID} |->
            IF id = game.ID THEN newBest ELSE bestOdds[id]]

RECURSIVE ScanGames(_, _)
\* the inner loop: the games of one bookmaker, in order
ScanGames(bestOdds, games) ==
    IF games = <<>> THEN bestOdds
    ELSE ScanGames(UpdateBest(bestOdds, Head(games)), Tail(games))

RECURSIVE ScanBookmakers(_, _)
\* the outer loop: the bookmakers, in order
ScanBookmakers(bestOdds, bms) ==
    IF bms = <<>> THEN bestOdds
    ELSE ScanBookmakers(ScanGames(bestOdds, Head(bms).Games), Tail(bms))

EmptyMap == [id \in {} |-> Odds(Zero, Zero, Zero)]

findBestOdds(bms) == ScanBookmakers(EmptyMap, bms)

(***************************************************************************)
(* State                                                                   *)
(***************************************************************************)
VARIABLES
    pc,                    \* where main is
    file,                  \* bookmakers.json: NoFile, BadFile or a snapshot
    numBookmakers,         \* generateBookmakers' parameters
    numGamesPerBookmaker,
    i,                     \* the spawning loop's counter (sba.go 74)
    wg,                    \* the WaitGroup's counter
    taskPc,                \* each generator goroutine's position
    closerPc,              \* the closing goroutine's position
    bookmakerCh,           \* the channel's buffer, oldest first
    chClosed,              \* whether the channel is closed
    panicked,              \* a goroutine panicked: the process is gone
    bookmakers,            \* the collection main holds
    collectedFrom,         \* (history) the task each collected record came from
    bestOdds,              \* findArbitrageOpportunities' map
    pending,               \* the keys the range loop has not visited yet
    reports,               \* the opportunities printed, in order
    errors,                \* the error lines printed, in order
    log,                   \* (history) the steps main took, in order
    argOdds,               \* calculateStakes' arguments and result, when
    argTotalBet,           \* it is applied by itself
    stakes

vars == <<pc, file, numBookmakers, numGamesPerBookmaker, i, wg, taskPc, closerPc,
          bookmakerCh, chClosed, panicked, bookmakers, collectedFrom, bestOdds,
          pending, reports, errors, log, argOdds, argTotalBet, stakes>>

genVars == <<i, wg, taskPc, closerPc, bookmakerCh, chClosed, panicked, collectedFrom>>
evalVars == <<bestOdds, pending, reports>>
argVars == <<argOdds, argTotalBet, stakes>>
params == <<numBookmakers, numGamesPerBookmaker>>

NoFile == [kind |-> "absent", data |-> <<>>]
BadFile == [kind |-> "bad", data |-> <<>>]
DataFile(bms) == [kind |-> "data", data |-> bms]

Tasks == 1..MaxTasks

NoStakes == [winStake |-> Zero, drawStake |-> Zero, loseStake |-> Zero]

\* everything but pc, file, the parameters and bookmakers, as main starts
Fresh ==
    /\ i = 0
    /\ wg = 0
    /\ taskPc = [t \in Tasks |-> "idle"]
    /\ closerPc = "idle"
    /\ bookmakerCh = <<>>
    /\ chClosed = FALSE
    /\ panicked = FALSE
    /\ collectedFrom = <<>>
    /\ bestOdds = EmptyMap
    /\ pending = {}
    /\ reports = <<>>
    /\ errors = <<>>
    /\ log = <<>>
    /\ argOdds = Odds(One, One, One)
    /\ argTotalBet = One
    /\ stakes = NoStakes

\* main starts: the snapshot file is absent, unreadable or holds a snapshot
Init ==
    /\ pc = "stat"
    /\ file \in {NoFile, BadFile} \cup { DataFile(c) : c \in Snapshots }
    /\ numBookmakers \in 0..MaxTasks
    /\ numGamesPerBookmaker \in GameCounts
    /\ bookmakers = <<>>
    /\ Fresh

(***************************************************************************)
(* main (sba.go 172-195)                                                   *)
(***************************************************************************)
\* os.Stat and os.IsNotExist (180): generate, or read
Stat ==
    /\ pc = "stat"
    /\ pc' = IF file.kind = "absent" THEN "spawn" ELSE "read"
    /\ log' = Append(log, IF file.kind = "absent" THEN "stat_absent" ELSE "stat_exists")
    /\ UNCHANGED <<file, params, genVars, bookmakers, evalVars, errors, argVars>>

\* writeBookmakersToFile (182-185): it succeeds, or fails and main returns
Write ==
    /\ pc = "write"
    /\ \E ok \in BOOLEAN :
         IF ok
         THEN /\ file' = DataFile(bookmakers)
              /\ errors' = errors
              /\ log' = Append(log, "write_ok")
              /\ pc' = "evaluate"
         ELSE /\ file' \in {NoFile, BadFile}
              /\ errors' = Append(errors, "Error writing bookmakers to file")
              /\ log' = Append(log, "write_failed")
              /\ pc' = "done"
    /\ UNCHANGED <<params, genVars, bookmakers, evalVars, argVars>>

\* Faulty variant: the error of readBookmakersFromFile is dropped
ReadIgnoringError ==
    /\ pc = "read"
    /\ bookmakers' = file.data
    /\ errors' = errors
    /\ log' = Append(log, IF file.kind = "data" THEN "read_ok" ELSE "read_failed")
    /\ pc' = "evaluate"
    /\ UNCHANGED <<file, params, genVars, evalVars, argVars>>

\* readBookmakersFromFile (187-191): it succeeds, or fails and main returns
Read ==
    /\ pc = "read"
    /\ IF file.kind = "data"
       THEN /\ bookmakers' = file.data
            /\ errors' = errors
            /\ log' = Append(log, "read_ok")
            /\ pc' = "evaluate"
       ELSE /\ bookmakers' = <<>>
            /\ errors' = Append(errors, "Error reading bookmakers from file")
            /\ log' = Append(log, "read_failed")
            /\ pc' = "done"
    /\ UNCHANGED <<file, params, genVars, evalVars, argVars>>

(***************************************************************************)
(* generateBookmakers (sba.go 69-96)                                       *)
(***************************************************************************)
\* cap(bookmakerCh) (72)
Capacity == numBookmakers

\* Faulty variant: the closer does not wait
WaitSkipped == TRUE

\* wg.Wait() returns when the counter is zero (87)
WaitReturns == wg = 0

\* 74-76: wg.Add(1) and go func() for the next bookmaker
SpawnTask ==
    /\ pc = "spawn" /\ ~panicked
    /\ i < numBookmakers
    /\ wg' = wg + 1
    /\ taskPc' = [taskPc EXCEPT ![i + 1] = "send"]
    /\ i' = i + 1
    /\ UNCHANGED <<pc, file, params, closerPc, bookmakerCh, chClosed, panicked,
                   bookmakers, collectedFrom, evalVars, errors, log, argVars>>

\* 86: the loop is over; go func() for the closer
SpawnCloser ==
    /\ pc = "spawn" /\ ~panicked
    /\ i >= numBookmakers
    /\ closerPc' = "wait"
    /\ pc' = "collect"
    /\ UNCHANGED <<file, params, i, wg, taskPc, bookmakerCh, chClosed, panicked,
                   bookmakers, collectedFrom, evalVars, errors, log, argVars>>

\* 78-82: a task builds its bookmaker and sends it; a send on a closed channel
\* panics, a send on a full one waits
TaskSend(t) ==
    /\ taskPc[t] = "send" /\ ~panicked
    /\ chClosed \/ Len(bookmakerCh) < Capacity
    /\ \E games \in generateGames(numGamesPerBookmaker) :
         IF chClosed
         THEN /\ panicked' = TRUE
              /\ bookmakerCh' = bookmakerCh
         ELSE /\ panicked' = FALSE
              /\ bookmakerCh' = Append(bookmakerCh, [by |-> t, bookmaker |-> Bookmaker(games)])
    /\ taskPc' = [taskPc EXCEPT ![t] = "deferred"]
    /\ UNCHANGED <<pc, file, params, i, wg, closerPc, chClosed, bookmakers,
                   collectedFrom, evalVars, errors, log, argVars>>

\* 77: the deferred wg.Done()
TaskDone(t) ==
    /\ taskPc[t] = "deferred" /\ ~panicked
    /\ wg' = wg - 1
    /\ taskPc' = [taskPc EXCEPT ![t] = "exit"]
    /\ UNCHANGED <<pc, file, params, i, closerPc, bookmakerCh, chClosed, panicked,
                   bookmakers, collectedFrom, evalVars, errors, log, argVars>>

\* 87: wg.Wait()
CloserWait ==
    /\ closerPc = "wait" /\ ~panicked
    /\ WaitReturns
    /\ closerPc' = "close"
    /\ UNCHANGED <<pc, file, params, i, wg, taskPc, bookmakerCh, chClosed, panicked,
                   bookmakers, collectedFrom, evalVars, errors, log, argVars>>

\* 88: close(bookmakerCh)
CloserClose ==
    /\ closerPc = "close" /\ ~panicked
    /\ chClosed' = TRUE
    /\ closerPc' = "exit"
    /\ UNCHANGED <<pc, file, params, i, wg, taskPc, bookmakerCh, panicked,
                   bookmakers, collectedFrom, evalVars, errors, log, argVars>>

\* 91-92: the range loop receives a bookmaker and appends it
Receive ==
    /\ pc = "collect" /\ ~panicked
    /\ bookmakerCh # <<>>
    /\ bookmakers' = Append(bookmakers, Head(bookmakerCh).bookmaker)
    /\ collectedFrom' = Append(collectedFrom, Head(bookmakerCh).by)
    /\ bookmakerCh' = Tail(bookmakerCh)
    /\ UNCHANGED <<pc, file, params, i, wg, taskPc, closerPc, chClosed, panicked,
                   evalVars, errors, log, argVars>>

\* 91, 95: the channel is closed and drained; generateBookmakers returns
RangeEnd ==
    /\ pc = "collect" /\ ~panicked
    /\ bookmakerCh = <<>> /\ chClosed
    /\ pc' = "write"
    /\ log' = Append(log, "generate")
    /\ UNCHANGED <<file, params, genVars, bookmakers, evalVars, errors, argVars>>

(***************************************************************************)
(* findArbitrageOpportunities (sba.go 154-170)                             *)
(***************************************************************************)
\* totalBet := 100.0 (161)
TotalBet == 100

\* Faulty variant: the profit is taken from the total bet, not from the payout
OpportunityNoMargin(gameID, odds) ==
    LET totalBet == FromInt(TotalBet)
        st == calculateStakes(odds, totalBet)
        totalStake == FAdd[FAdd[st.winStake, st.drawStake], st.loseStake]
    IN  [gameID |-> gameID, odds |-> odds,
         winStake |-> st.winStake, drawStake |-> st.drawStake, loseStake |-> st.loseStake,
         guaranteedProfit |-> FSub[totalBet, totalStake]]

\* the record the four Printf calls of one opportunity print (159-166)
Opportunity(gameID, odds) ==
    LET arbitragePercentage == calculateArbitragePercentage(odds)
        totalBet == FromInt(TotalBet)
        st == calculateStakes(odds, totalBet)
        totalStake == FAdd[FAdd[st.winStake, st.drawStake], st.loseStake]
    IN  [gameID |-> gameID, odds |-> odds,
         winStake |-> st.winStake, drawStake |-> st.drawStake, loseStake |-> st.loseStake,
         guaranteedProfit |-> FSub[FDiv[totalBet, arbitragePercentage], totalStake]]

\* Faulty variant: <= for <
IsOpportunityOrEqual(odds) ==
    /\ ~IsNaN(calculateArbitragePercentage(odds))
    /\ ~FGreater[calculateArbitragePercentage(odds), One]

\* the condition of line 158
IsOpportunity(odds) == FLess[calculateArbitragePercentage(odds), One]

\* 155: bestOdds := findBestOdds(bookmakers)
Aggregate ==
    /\ pc = "evaluate"
    /\ bestOdds' = findBestOdds(bookmakers)
    /\ pending' = DOMAIN bestOdds'
    /\ pc' = "range"
    /\ log' = Append(log, "evaluate")
    /\ UNCHANGED <<file, params, genVars, bookmakers, reports, errors, argVars>>

\* 156-168: one pass of the loop over the map, whose order Go leaves open
EvaluateEvent ==
    /\ pc = "range"
    /\ \E gameID \in pending :
         /\ reports' = IF IsOpportunity(bestOdds[gameID])
                       THEN Append(reports, Opportunity(gameID, bestOdds[gameID]))
                       ELSE reports
         /\ pending' = pending \ {gameID}
    /\ UNCHANGED <<pc, file, params, genVars, bookmakers, bestOdds, errors, log, argVars>>

\* 169, 195: the loop is over; findArbitrageOpportunities and main return
Return ==
    /\ pc = "range"
    /\ pending = {}
    /\ pc' = "done"
    /\ UNCHANGED <<file, params, genVars, bookmakers, evalVars, errors, log, argVars>>

(***************************************************************************)
(* Specifications                                                          *)
(***************************************************************************)
Task(t) == TaskSend(t) \/ TaskDone(t)

Closer == CloserWait \/ CloserClose

Main ==
    \/ Stat
    \/ SpawnTask
    \/ SpawnCloser
    \/ Receive
    \/ RangeEnd
    \/ Write
    \/ Read
    \/ Aggregate
    \/ EvaluateEvent
    \/ Return

Next ==
    \/ Main
    \/ \E t \in Tasks : Task(t)
    \/ Closer

\* the program
Spec == Init /\ [][Next]_vars

\* the program under Go's scheduler, which runs every goroutine that can run
FairSpec ==
    /\ Spec
    /\ WF_vars(Main)
    /\ \A t \in Tasks : WF_vars(Task(t))
    /\ WF_vars(Closer)

\* findArbitrageOpportunities applied to any collection of bookmakers
InitEngine ==
    /\ pc = "evaluate"
    /\ file = NoFile
    /\ numBookmakers = 0
    /\ numGamesPerBookmaker = 0
    /\ bookmakers \in Collections
    /\ Fresh

NextEngine == Aggregate \/ EvaluateEvent \/ Return

SpecEngine == InitEngine /\ [][NextEngine]_vars

\* calculateStakes applied to any odds and any positive total bet
InitStakes ==
    /\ pc = "stakes"
    /\ file = NoFile
    /\ numBookmakers = 0
    /\ numGamesPerBookmaker = 0
    /\ bookmakers = <<>>
    /\ i = 0
    /\ wg = 0
    /\ taskPc = [t \in Tasks |-> "idle"]
    /\ closerPc = "idle"
    /\ bookmakerCh = <<>>
    /\ chClosed = FALSE
    /\ panicked = FALSE
    /\ collectedFrom = <<>>
    /\ bestOdds = EmptyMap
    /\ pending = {}
    /\ reports = <<>>
    /\ errors = <<>>
    /\ log = <<>>
    /\ argOdds \in { Odds(w, d, l) : w \in PriceSet, d \in PriceSet, l \in PriceSet }
    /\ argTotalBet \in TotalBets
    /\ stakes = NoStakes

\* 124-130
Allocate ==
    /\ pc = "stakes"
    /\ stakes' = calculateStakes(argOdds, argTotalBet)
    /\ pc' = "allocated"
    /\ UNCHANGED <<file, params, genVars, bookmakers, evalVars, errors, log,
                   argOdds, argTotalBet>>

NextStakes == Allocate

SpecStakes == InitStakes /\ [][NextStakes]_vars

(***************************************************************************)
(* Properties.  What the properties speak of                               *)
(***************************************************************************)
\* findBestOdds has returned
Aggregated == pc \in {"range", "done"}

\* the positions <<b, g>> of the quotes of event id
Positions ==
    UNION { { <<b, g>> : g \in 1..Len(bookmakers[b].Games) } : b \in 1..Len(bookmakers) }

QuotesOf(id) == { q \in Positions : bookmakers[q[1]].Games[q[2]].ID = id }

QuoteAt(q) == bookmakers[q[1]].Games[q[2]].Odds

QuotedIDs == { id \in IDs : QuotesOf(id) # {} }

\* the bookmakers that quote event id
QuotersOf(id) == { q[1] : q \in QuotesOf(id) }

\* v is the largest value of S
IsMaximum(v, S) == v \in S /\ \A x \in S : ~FGreater[x, v]

\* the loop of findArbitrageOpportunities has visited event id
Visited(id) == Aggregated /\ id \in DOMAIN bestOdds /\ id \notin pending

ReportsOf(id) == { k \in 1..Len(reports) : reports[k].gameID = id }

\* 1/win + 1/draw + 1/lose < 1
SumBelowOne(o) ==
    FLess[FAdd[FAdd[FDiv[One, o.Win], FDiv[One, o.Draw]], FDiv[One, o.Lose]], One]

Positive(x) == FGreater[x, Zero]

AllPositive(o) == Positive(o.Win) /\ Positive(o.Draw) /\ Positive(o.Lose)

\* x = y as Go compares float64
FEq(x, y) == ~IsNaN(x) /\ ~IsNaN(y) /\ x = y

(***************************************************************************)
(* C1: once findBestOdds has returned, the keys of the map are exactly the *)
(* event ids some bookmaker quotes, each field of an entry is the maximum  *)
(* of that field over all the quotes of the event, and an empty collection *)
(* gives the empty map.                                                    *)
(***************************************************************************)
C1_BestOddsAreFieldMaxima ==
    Aggregated =>
        /\ DOMAIN bestOdds = QuotedIDs
        /\ \A id \in QuotedIDs :
             /\ IsMaximum(bestOdds[id].Win, { QuoteAt(q).Win : q \in QuotesOf(id) })
             /\ IsMaximum(bestOdds[id].Draw, { QuoteAt(q).Draw : q \in QuotesOf(id) })
             /\ IsMaximum(bestOdds[id].Lose, { QuoteAt(q).Lose : q \in QuotesOf(id) })
        /\ (bookmakers = <<>> => bestOdds = EmptyMap)

\* two bookmakers quote e1, and the map mixes their prices
C1_Witness ==
    /\ Aggregated
    /\ Len(bookmakers) = 2
    /\ bookmakers[1].Games = <<Game("e1", OddsCents(210, 300, 400))>>
    /\ bookmakers[2].Games = <<Game("e1", OddsCents(190, 350, 420))>>
    /\ bestOdds["e1"] = OddsCents(210, 350, 420)

(***************************************************************************)
(* C2: an event the loop has visited is reported exactly once if the sum   *)
(* of the reciprocals of its best odds is below 1 and is not reported      *)
(* otherwise; an event not visited yet is not reported.                    *)
(***************************************************************************)
C2_ReportedIffBelowOne ==
    Aggregated =>
        /\ \A id \in DOMAIN bestOdds :
             Cardinality(ReportsOf(id)) =
                IF Visited(id) /\ SumBelowOne(bestOdds[id]) THEN 1 ELSE 0
        /\ \A k \in 1..Len(reports) : reports[k].gameID \in DOMAIN bestOdds

\* 1.50/2.00/3.00 was visited and is not reported, another event is
C2_Witness ==
    /\ pc = "done"
    /\ Visited("e1") /\ bestOdds["e1"] = OddsCents(150, 200, 300)
    /\ ReportsOf("e1") = {}
    /\ Visited("e2") /\ ReportsOf("e2") # {}

(***************************************************************************)
(* C4: an event whose best odds hold a price that is 0 or negative is      *)
(* never reported as an opportunity (and so no stake is computed for it).  *)
(***************************************************************************)
C4_InvalidOddsNeverReported ==
    \A id \in DOMAIN bestOdds :
        (Visited(id) /\ ~AllPositive(bestOdds[id])) => ReportsOf(id) = {}

(***************************************************************************)
(* C5 as stated: once the loop has visited an event whose best odds are    *)
(* 2.10/3.50/4.20, its arbitrage percentage is within 0.00005 of 0.9324,   *)
(* below 1, and the event is reported.                                     *)
(***************************************************************************)
C5_Odds == OddsCents(210, 350, 420)

C5_FlaggedAsStated ==
    \A id \in DOMAIN bestOdds :
        (Visited(id) /\ bestOdds[id] = C5_Odds) =>
            /\ FLess[Fin[93235, 100000], calculateArbitragePercentage(bestOdds[id])]
            /\ FLess[calculateArbitragePercentage(bestOdds[id]), Fin[93245, 100000]]
            /\ ReportsOf(id) # {}

(***************************************************************************)
(* C5 amended: for the best odds 2.10/3.50/4.20 the arbitrage percentage   *)
(* is exactly 1 (10/21 + 6/21 + 5/21), which is not below 1, and the event *)
(* is not reported.                                                        *)
(***************************************************************************)
C5_ExactlyOneNotFlagged ==
    \A id \in DOMAIN bestOdds :
        (Visited(id) /\ bestOdds[id] = C5_Odds) =>
            /\ calculateArbitragePercentage(bestOdds[id]) = One
            /\ ~IsOpportunity(bestOdds[id])
            /\ ReportsOf(id) = {}

C5_Witness ==
    /\ pc = "done"
    /\ Visited("e1") /\ bestOdds["e1"] = C5_Odds
    /\ reports = <<>>

(***************************************************************************)
(* C6 as stated: an event quoted by exactly one bookmaker, at positive     *)
(* prices, is in the map with odds that bookmaker quotes for it, and once  *)
(* visited it is reported if those odds sum below 1.                       *)
(***************************************************************************)
C6_OneBookmakerAsStated ==
    Aggregated =>
        \A id \in QuotedIDs :
            (Cardinality(QuotersOf(id)) = 1 /\ \A q \in QuotesOf(id) : AllPositive(QuoteAt(q))) =>
                /\ \E q \in QuotesOf(id) : bestOdds[id] = QuoteAt(q)
                /\ (Visited(id) /\ SumBelowOne(bestOdds[id])) => ReportsOf(id) # {}

(***************************************************************************)
(* C6 amended: an event quoted exactly once (one quote of one bookmaker)   *)
(* is in the map with the odds of that quote, and once visited it is       *)
(* reported exactly once if those odds sum below 1, and not otherwise.     *)
(***************************************************************************)
C6_SingleQuotePassesThrough ==
    Aggregated =>
        \A id \in QuotedIDs :
            Cardinality(QuotesOf(id)) = 1 =>
                /\ \A q \in QuotesOf(id) : bestOdds[id] = QuoteAt(q)
                /\ Visited(id) =>
                     Cardinality(ReportsOf(id)) =
                        IF \A q \in QuotesOf(id) : SumBelowOne(QuoteAt(q)) THEN 1 ELSE 0

\* e1 is quoted once, at 2.90/4.90/5.90, and is reported
C6_Witness ==
    /\ pc = "done"
    /\ Cardinality(QuotesOf("e1")) = 1
    /\ bestOdds["e1"] = OddsCents(290, 490, 590)
    /\ Cardinality(ReportsOf("e1")) = 1

(***************************************************************************)
(* C7: the map findBestOdds returned is the map it returns for the same    *)
(* collection again, and for every collection that has the same            *)
(* bookmakers in another order, each with its games in another order.      *)
(***************************************************************************)
Injections(n) == { f \in [1..n -> 1..n] : \A a, b \in 1..n : f[a] = f[b] => a = b }

Reorderings(q) == { [k \in 1..Len(q) |-> q[f[k]]] : f \in Injections(Len(q)) }

RECURSIVE GamesRearranged(_)
GamesRearranged(bms) ==
    IF bms = <<>> THEN { <<>> }
    ELSE { <<Bookmaker(gs)>> \o rest :
             gs \in Reorderings(Head(bms).Games), rest \in GamesRearranged(Tail(bms)) }

Rearrangements(bms) == UNION { Reorderings(c) : c \in GamesRearranged(bms) }

C7_OrderIndependent ==
    Aggregated =>
        /\ findBestOdds(bookmakers) = bestOdds
        /\ \A c \in Rearrangements(bookmakers) : findBestOdds(c) = bestOdds

\* two bookmakers quote e1 at different odds: the order could matter
C7_Witness ==
    /\ Aggregated
    /\ Len(bookmakers) = 2
    /\ Cardinality(QuotersOf("e1")) = 2
    /\ bookmakers[1].Games[1].Odds # bookmakers[2].Games[1].Odds
    /\ Cardinality(Rearrangements(bookmakers)) = 2

(***************************************************************************)
(* C10: every opportunity reported for best odds that are all positive has *)
(* three positive stakes that sum to the total bet of 100, and its         *)
(* guaranteed profit is 100/percentage - 100, which is greater than 0.     *)
(***************************************************************************)
C10_StakesAndProfit ==
    \A k \in 1..Len(reports) :
        LET r == reports[k]
            payout == FDiv[FromInt(TotalBet), calculateArbitragePercentage(r.odds)]
        IN  AllPositive(r.odds) =>
                /\ r.odds = bestOdds[r.gameID]
                /\ Positive(r.winStake) /\ Positive(r.drawStake) /\ Positive(r.loseStake)
                /\ FEq(FAdd[FAdd[r.winStake, r.drawStake], r.loseStake], FromInt(100))
                /\ FEq(r.guaranteedProfit, FSub[payout, FromInt(100)])
                /\ Positive(r.guaranteedProfit)

\* 2.90/4.90/5.90 is reported
C10_Witness ==
    \E k \in 1..Len(reports) :
        /\ reports[k].odds = OddsCents(290, 490, 590)
        /\ Positive(reports[k].guaranteedProfit)

(***************************************************************************)
(* C3: when calculateStakes has been applied to odds whose arbitrage       *)
(* percentage is below 1 and to a positive total bet, the three payouts    *)
(* stake * price are equal, and equal to total bet / percentage.           *)
(***************************************************************************)
C3_EqualPayouts ==
    (pc = "allocated" /\ SumBelowOne(argOdds) /\ Positive(argTotalBet)) =>
        LET payout == FDiv[argTotalBet, calculateArbitragePercentage(argOdds)]
        IN  /\ FEq(FMul[stakes.winStake, argOdds.Win], payout)
            /\ FEq(FMul[stakes.drawStake, argOdds.Draw], payout)
            /\ FEq(FMul[stakes.loseStake, argOdds.Lose], payout)

\* 100 is staked on 3.50/4.20/5.90, and the three stakes differ
C3_Witness ==
    /\ pc = "allocated"
    /\ argOdds = OddsCents(350, 420, 590)
    /\ SumBelowOne(argOdds)
    /\ argTotalBet = FromInt(100)
    /\ FGreater[stakes.winStake, stakes.drawStake]
    /\ FGreater[stakes.drawStake, stakes.loseStake]

(***************************************************************************)
(* C8: generateBookmakers never sends on a closed channel, closes the      *)
(* channel only after every task has sent, never has a task wait at a full *)
(* channel, holds every record sent exactly once (in the channel or in the *)
(* collection), returns one record of each of the numBookmakers tasks, and *)
(* returns whenever it is called.                                          *)
(***************************************************************************)
Spawned == 1..numBookmakers

Sent == { t \in Tasks : taskPc[t] \in {"deferred", "exit"} }

\* the tasks whose records are in the channel, oldest first
InChannel == [k \in 1..Len(bookmakerCh) |-> bookmakerCh[k].by]

\* the tasks whose records are in the channel or collected
Held == collectedFrom \o InChannel

\* generateBookmakers was called, and has returned
Called == log # <<>> /\ log[1] = "stat_absent"

Returned == Len(log) >= 2 /\ log[2] = "generate"

C8_Safe ==
    /\ ~panicked
    /\ chClosed => (i = numBookmakers /\ Sent = Spawned)
    /\ \A t \in Tasks : taskPc[t] = "send" => Len(bookmakerCh) < Capacity
    /\ \A a, b \in 1..Len(Held) : Held[a] = Held[b] => a = b
    /\ { Held[k] : k \in 1..Len(Held) } = Sent
    /\ Called => Len(bookmakers) = Len(collectedFrom)
    /\ Returned =>
         /\ Len(bookmakers) = numBookmakers
         /\ { collectedFrom[k] : k \in 1..Len(collectedFrom) } = Spawned
         /\ bookmakerCh = <<>>

C8_FanInTerminates == [](C8_Safe) /\ ((pc = "spawn") ~> (pc = "write"))

\* two tasks ran, and the second task's record was collected first
C8_Witness ==
    /\ pc = "write"
    /\ numBookmakers = 2
    /\ collectedFrom = <<2, 1>>
    /\ Len(bookmakers) = 2

(***************************************************************************)
(* C9: main takes one of four runs, each step once: stat, generate, write, *)
(* evaluate; stat, generate, a failed write; stat, read, evaluate; stat, a *)
(* failed read.  A failed step prints its error and ends the run, and      *)
(* nothing else prints an error; the evaluation runs at most once, and     *)
(* only after a write or a read that succeeded.                            *)
(***************************************************************************)
Runs ==
    { <<"stat_absent", "generate", "write_ok", "evaluate">>,
      <<"stat_absent", "generate", "write_failed">>,
      <<"stat_exists", "read_ok", "evaluate">>,
      <<"stat_exists", "read_failed">> }

IsPrefix(p, q) == Len(p) <= Len(q) /\ SubSeq(q, 1, Len(p)) = p

Last(q) == q[Len(q)]

C9_EvaluateOnlyAfterSuccess ==
    /\ \E run \in Runs : IsPrefix(log, run)
    /\ pc = "done" => log \in Runs
    /\ errors =
         IF log # <<>> /\ Last(log) = "write_failed" THEN <<"Error writing bookmakers to file">>
         ELSE IF log # <<>> /\ Last(log) = "read_failed" THEN <<"Error reading bookmakers from file">>
         ELSE <<>>
    /\ (log # <<>> /\ Last(log) \in {"write_failed", "read_failed"}) =>
         (pc = "done" /\ bestOdds = EmptyMap /\ reports = <<>>)
    /\ (pc \in {"range"} \/ reports # <<>>) => (log # <<>> /\ Last(log) = "evaluate")

\* the file was absent, the data was generated and the write failed
C9_Witness ==
    /\ pc = "done"
    /\ log = <<"stat_absent", "generate", "write_failed">>
    /\ errors = <<"Error writing bookmakers to file">>
    /\ Len(bookmakers) = 2

=============================================================================
